---- MODULE Spec2Model ----
(***************************************************************************)
(* The relational schema of sparcs09-api/apps/core/models.py as a state    *)
(* machine.  A state is the content of the nine tables (auth User and the  *)
(* seven models of the file); an action is one ORM operation on a row:     *)
(* create, save of changed fields, or physical delete with the cascade     *)
(* that the ForeignKey declarations ask for.  Field values are written     *)
(* through the fields' own validation (choices, null, blank), the only     *)
(* place where the options declared in the file have an effect.            *)
(* Record.cost, UserLog.pretty and UserLog.__str__ are operators.          *)
(***************************************************************************)
EXTENDS Integers, FiniteSets, Sequences, TLC

VARIABLES
    users,              \* auth_user: the set of primary keys
    items,              \* Item:           pk -> [host, price, is_deleted]
    contents,           \* Content:        pk -> [item, type, content, image, link]
    comments,           \* Comment:        pk -> [item, writer, is_deleted]
    option_categories,  \* OptionCategory: pk -> [item]
    option_items,       \* OptionItem:     pk -> [category, price_delta]
    records,            \* Record:         pk -> [participant, item, options, quantity]
    payments,           \* Payment:        pk -> [item, participant, total, status]
    user_logs,          \* UserLog:        pk -> [user, level, time, ip, group, text]
    nextId,             \* the next primary key of each table (AutoField)
    now,                \* the clock that auto_now reads, in hours (UTC)
    tz,                 \* the UTC offset of the current time zone, in hours
    last                \* the operation that produced this state

vars == <<users, items, contents, comments, option_categories, option_items,
          records, payments, user_logs, nextId, now, tz, last>>

tables == <<users, items, contents, comments, option_categories, option_items,
            records, payments, user_logs>>

(***************************************************************************)
(* Bounds of the model                                                     *)
(***************************************************************************)
\* the number of rows created in a run, over all tables, per specification
MaxRows == 5
MaxItemRows == 8
MaxCostRows == 6
MaxPaymentRows == 5
MaxContentRows == 4
MaxLogRows == 3
\* the hours the clock advances in a run
MaxNow == 2

(***************************************************************************)
(* Choices and the values the fields are given                             *)
(***************************************************************************)
CONTENT_TYPE_TEXT == "0"
CONTENT_TYPE_IMAGE == "1"
CONTENT_TYPE_VIDEO == "2"
CONTENT_TYPE_CHOICES == {CONTENT_TYPE_TEXT, CONTENT_TYPE_IMAGE, CONTENT_TYPE_VIDEO}

STATUS_PENDING == "0"
STATUS_JOINED == "1"
STATUS_PAID == "2"
STATUS_CHOICES == {STATUS_PENDING, STATUS_JOINED, STATUS_PAID}

GROUP_ACCOUNT == "sparcs09.account"
GROUP_CHOICES == {GROUP_ACCOUNT}

\* user = None of a UserLog (primary keys start at 1)
NoUser == 0
\* a payload column of Content that is NULL
Null == "NULL"

\* Field.validate: a value of a field with choices is one of the choices
ValidChoice(value, choices) == value \in choices

(***************************************************************************)
(* Helpers on tables                                                       *)
(***************************************************************************)
Put(t, k, row) == [x \in DOMAIN t \cup {k} |-> IF x = k THEN row ELSE t[x]]
Drop(t, ks) == [x \in DOMAIN t \ ks |-> t[x]]
Empty == [x \in {} |-> 0]

RECURSIVE SumOver(_, _)
SumOver(S, f) ==
    IF S = {} THEN 0
    ELSE LET x == CHOOSE y \in S : TRUE IN f[x] + SumOver(S \ {x}, f)

Step(op, id, info) == [op |-> op, id |-> id, info |-> info]

(***************************************************************************)
(* Record.cost                                                             *)
(***************************************************************************)
\* the loop of cost(): price += optItem.price_delta for each selected option
RECURSIVE AddDeltas(_, _)
AddDeltas(price, opts) ==
    IF opts = {} THEN price
    ELSE LET optItem == CHOOSE o \in opts : TRUE
         IN AddDeltas(price + option_items[optItem].price_delta, opts \ {optItem})

\* cost() with the quantity applied to the price before the options are added
cost_QuantityBeforeOptions(r) ==
    AddDeltas(items[records[r].item].price * records[r].quantity, records[r].options)

cost(r) == AddDeltas(items[records[r].item].price, records[r].options) * records[r].quantity

(***************************************************************************)
(* Init: the empty database                                                *)
(***************************************************************************)
Blank ==
    /\ users = {}
    /\ items = Empty
    /\ contents = Empty
    /\ comments = Empty
    /\ option_categories = Empty
    /\ option_items = Empty
    /\ records = Empty
    /\ payments = Empty
    /\ user_logs = Empty
    /\ nextId = [user |-> 1, item |-> 1, content |-> 1, comment |-> 1,
                 category |-> 1, option |-> 1, record |-> 1, payment |-> 1,
                 log |-> 1]
    /\ now = 0
    /\ last = Step("init", 0, {})

\* the deployment's TIME_ZONE is set outside this file
TimeZones == {0, 9}

Init == Blank /\ tz = 0

\* the rows created so far
Rows ==
    nextId.user + nextId.item + nextId.content + nextId.comment
    + nextId.category + nextId.option + nextId.record + nextId.payment
    + nextId.log - 9

(***************************************************************************)
(* Creating and saving rows                                                *)
(***************************************************************************)
\* User.objects.create_user(...)
CreateUser ==
    /\ users' = users \cup {nextId.user}
    /\ nextId' = [nextId EXCEPT !.user = @ + 1]
    /\ last' = Step("CreateUser", nextId.user, {})
    /\ UNCHANGED <<items, contents, comments, option_categories, option_items,
                   records, payments, user_logs, now, tz>>

\* Item.objects.create(host=host, price=price): is_deleted takes its default
CreateItem(host, price) ==
    /\ host \in users
    /\ items' = Put(items, nextId.item,
                    [host |-> host, price |-> price, is_deleted |-> FALSE])
    /\ nextId' = [nextId EXCEPT !.item = @ + 1]
    /\ last' = Step("CreateItem", nextId.item, {})
    /\ UNCHANGED <<users, contents, comments, option_categories, option_items,
                   records, payments, user_logs, now, tz>>

\* item.price = price; item.save()
UpdateItemPrice(i, price) ==
    /\ i \in DOMAIN items
    /\ items' = [items EXCEPT ![i].price = price]
    /\ last' = Step("UpdateItemPrice", i, {})
    /\ UNCHANGED <<users, contents, comments, option_categories, option_items,
                   records, payments, user_logs, nextId, now, tz>>

\* a soft delete that also flags the comments of the item
SoftDeleteItem_FlagsComments(i) ==
    /\ i \in DOMAIN items
    /\ items' = [items EXCEPT ![i].is_deleted = TRUE]
    /\ comments' = [c \in DOMAIN comments |->
                       IF comments[c].item = i
                       THEN [comments[c] EXCEPT !.is_deleted = TRUE]
                       ELSE comments[c]]
    /\ last' = Step("SoftDeleteItem", i, {})
    /\ UNCHANGED <<users, contents, option_categories, option_items,
                   records, payments, user_logs, nextId, now, tz>>

\* item.is_deleted = True; item.save()
SoftDeleteItem(i) ==
    /\ i \in DOMAIN items
    /\ items' = [items EXCEPT ![i].is_deleted = TRUE]
    /\ last' = Step("SoftDeleteItem", i, {})
    /\ UNCHANGED <<users, contents, comments, option_categories, option_items,
                   records, payments, user_logs, nextId, now, tz>>

\* the field validation of a Content: type is one of its choices; content,
\* image and link are null=True, blank=True, so each may be empty or filled
ValidContent(type, content, image, link) ==
    ValidChoice(type, CONTENT_TYPE_CHOICES)

\* Content.objects.create(item=i, type=..., content=..., image=..., link=...)
CreateContent(i, type, content, image, link) ==
    /\ i \in DOMAIN items
    /\ ValidContent(type, content, image, link)
    /\ contents' = Put(contents, nextId.content,
                       [item |-> i, type |-> type, content |-> content,
                        image |-> image, link |-> link])
    /\ nextId' = [nextId EXCEPT !.content = @ + 1]
    /\ last' = Step("CreateContent", nextId.content, {})
    /\ UNCHANGED <<users, items, comments, option_categories, option_items,
                   records, payments, user_logs, now, tz>>

\* the fields of a Content are assigned and the row saved
UpdateContent(c, type, content, image, link) ==
    /\ c \in DOMAIN contents
    /\ ValidContent(type, content, image, link)
    /\ contents' = [contents EXCEPT ![c] =
                       [item |-> @.item, type |-> type, content |-> content,
                        image |-> image, link |-> link]]
    /\ last' = Step("UpdateContent", c, {})
    /\ UNCHANGED <<users, items, comments, option_categories, option_items,
                   records, payments, user_logs, nextId, now, tz>>

\* Comment.objects.create(item=i, writer=writer)
CreateComment(i, writer) ==
    /\ i \in DOMAIN items
    /\ writer \in users
    /\ comments' = Put(comments, nextId.comment,
                       [item |-> i, writer |-> writer, is_deleted |-> FALSE])
    /\ nextId' = [nextId EXCEPT !.comment = @ + 1]
    /\ last' = Step("CreateComment", nextId.comment, {})
    /\ UNCHANGED <<users, items, contents, option_categories, option_items,
                   records, payments, user_logs, now, tz>>

\* comment.is_deleted = True; comment.save()
SoftDeleteComment(c) ==
    /\ c \in DOMAIN comments
    /\ comments' = [comments EXCEPT ![c].is_deleted = TRUE]
    /\ last' = Step("SoftDeleteComment", c, {})
    /\ UNCHANGED <<users, items, contents, option_categories, option_items,
                   records, payments, user_logs, nextId, now, tz>>

\* OptionCategory.objects.create(item=i)
CreateOptionCategory(i) ==
    /\ i \in DOMAIN items
    /\ option_categories' = Put(option_categories, nextId.category, [item |-> i])
    /\ nextId' = [nextId EXCEPT !.category = @ + 1]
    /\ last' = Step("CreateOptionCategory", nextId.category, {})
    /\ UNCHANGED <<users, items, contents, comments, option_items,
                   records, payments, user_logs, now, tz>>

\* OptionItem.objects.create(category=c, price_delta=delta)
CreateOptionItem(c, delta) ==
    /\ c \in DOMAIN option_categories
    /\ option_items' = Put(option_items, nextId.option,
                           [category |-> c, price_delta |-> delta])
    /\ nextId' = [nextId EXCEPT !.option = @ + 1]
    /\ last' = Step("CreateOptionItem", nextId.option, {})
    /\ UNCHANGED <<users, items, contents, comments, option_categories,
                   records, payments, user_logs, now, tz>>

\* option.price_delta = delta; option.save()
UpdateOptionItem(o, delta) ==
    /\ o \in DOMAIN option_items
    /\ option_items' = [option_items EXCEPT ![o].price_delta = delta]
    /\ last' = Step("UpdateOptionItem", o, {})
    /\ UNCHANGED <<users, items, contents, comments, option_categories,
                   records, payments, user_logs, nextId, now, tz>>

\* Record.objects.create(participant=u, item=i, quantity=q): no option yet
CreateRecord(u, i, q) ==
    /\ u \in users
    /\ i \in DOMAIN items
    /\ records' = Put(records, nextId.record,
                      [participant |-> u, item |-> i, options |-> {},
                       quantity |-> q])
    /\ nextId' = [nextId EXCEPT !.record = @ + 1]
    /\ last' = Step("CreateRecord", nextId.record, {})
    /\ UNCHANGED <<users, items, contents, comments, option_categories,
                   option_items, payments, user_logs, now, tz>>

\* record.options.set(opts): any existing OptionItems, of any item or category
SetRecordOptions(r, opts) ==
    /\ r \in DOMAIN records
    /\ opts \subseteq DOMAIN option_items
    /\ records' = [records EXCEPT ![r].options = opts]
    /\ last' = Step("SetRecordOptions", r, {})
    /\ UNCHANGED <<users, items, contents, comments, option_categories,
                   option_items, payments, user_logs, nextId, now, tz>>

\* record.quantity = q; record.save()
UpdateRecordQuantity(r, q) ==
    /\ r \in DOMAIN records
    /\ records' = [records EXCEPT ![r].quantity = q]
    /\ last' = Step("UpdateRecordQuantity", r, {})
    /\ UNCHANGED <<users, items, contents, comments, option_categories,
                   option_items, payments, user_logs, nextId, now, tz>>

\* record.delete(): nothing references a Record except its own option rows
DeleteRecord(r) ==
    /\ r \in DOMAIN records
    /\ records' = Drop(records, {r})
    /\ last' = Step("DeleteRecord", r, {})
    /\ UNCHANGED <<users, items, contents, comments, option_categories,
                   option_items, payments, user_logs, nextId, now, tz>>

\* Payment.objects.create(item=i, participant=u, total=total, status=status)
CreatePayment(i, u, total, status) ==
    /\ i \in DOMAIN items
    /\ u \in users
    /\ ValidChoice(status, STATUS_CHOICES)
    /\ payments' = Put(payments, nextId.payment,
                       [item |-> i, participant |-> u, total |-> total,
                        status |-> status])
    /\ nextId' = [nextId EXCEPT !.payment = @ + 1]
    /\ last' = Step("CreatePayment", nextId.payment, {})
    /\ UNCHANGED <<users, items, contents, comments, option_categories,
                   option_items, records, user_logs, now, tz>>

\* payment.total = total; payment.save()
UpdatePaymentTotal(p, total) ==
    /\ p \in DOMAIN payments
    /\ payments' = [payments EXCEPT ![p].total = total]
    /\ last' = Step("UpdatePaymentTotal", p, {})
    /\ UNCHANGED <<users, items, contents, comments, option_categories,
                   option_items, records, user_logs, nextId, now, tz>>

\* a status saved without a look at the choices
UpdatePaymentStatus_AnyValue(p, status) ==
    /\ p \in DOMAIN payments
    /\ payments' = [payments EXCEPT ![p].status = status]
    /\ last' = Step("UpdatePaymentStatus", p, {payments[p].status})
    /\ UNCHANGED <<users, items, contents, comments, option_categories,
                   option_items, records, user_logs, nextId, now, tz>>

\* payment.status = status; payment.save(): last.info keeps the old status
UpdatePaymentStatus(p, status) ==
    /\ p \in DOMAIN payments
    /\ ValidChoice(status, STATUS_CHOICES)
    /\ payments' = [payments EXCEPT ![p].status = status]
    /\ last' = Step("UpdatePaymentStatus", p, {payments[p].status})
    /\ UNCHANGED <<users, items, contents, comments, option_categories,
                   option_items, records, user_logs, nextId, now, tz>>

\* UserLog.objects.create(user=u, ...): time is auto_now, the clock at save
CreateUserLog(u, level, ip, group, text) ==
    /\ u = NoUser \/ u \in users
    /\ ValidChoice(group, GROUP_CHOICES)
    /\ user_logs' = Put(user_logs, nextId.log,
                        [user |-> u, level |-> level, time |-> now, ip |-> ip,
                         group |-> group, text |-> text])
    /\ nextId' = [nextId EXCEPT !.log = @ + 1]
    /\ last' = Step("CreateUserLog", nextId.log, {})
    /\ UNCHANGED <<users, items, contents, comments, option_categories,
                   option_items, records, payments, now, tz>>

\* the clock advances
Tick ==
    /\ now' = now + 1
    /\ last' = Step("Tick", 0, {})
    /\ UNCHANGED <<tables, nextId, tz>>
(***************************************************************************)
(* Physical deletion.  Model.delete() collects the rows that reference the *)
(* deleted ones through a ForeignKey whose on_delete is CASCADE (also the  *)
(* default of a ForeignKey that names none, as Item.host), deletes them    *)
(* too, and deletes the rows of Record.options that select a deleted       *)
(* OptionItem.                                                             *)
(***************************************************************************)
\* Item.host
ItemsOfUsers(U) == {i \in DOMAIN items : items[i].host \in U}
\* Content.item
ContentsOfItems(I) == {c \in DOMAIN contents : contents[c].item \in I}
\* Comment.item, Comment.writer
CommentsOf(U, I) ==
    {c \in DOMAIN comments : comments[c].item \in I \/ comments[c].writer \in U}
\* OptionCategory.item
CategoriesOfItems(I) ==
    {c \in DOMAIN option_categories : option_categories[c].item \in I}
\* OptionItem.category without the cascade
OptionItemsOfCategories_NoCascade(C) == {}
\* OptionItem.category
OptionItemsOfCategories(C) ==
    {o \in DOMAIN option_items : option_items[o].category \in C}
\* Record.participant, Record.item
RecordsOf(U, I) ==
    {r \in DOMAIN records : records[r].item \in I \/ records[r].participant \in U}
\* Record.options with the rows of the deleted OptionItems left behind
OptionsWithout_LeftBehind(selected, O) == selected
\* Record.options: the selection of a Record once the OptionItems O are gone
OptionsWithout(selected, O) == selected \ O
\* Payment.item, Payment.participant
PaymentsOf(U, I) ==
    {p \in DOMAIN payments : payments[p].item \in I \/ payments[p].participant \in U}
\* UserLog.user
UserLogsOfUsers(U) == {l \in DOMAIN user_logs : user_logs[l].user \in U}

\* delete the users U, the items I0, the categories C0 and the option items O0
\* with everything that cascades from them; last.info names the tables that
\* lost rows to the cascade
Delete(op, id, U, I0, C0, O0) ==
    LET I == I0 \cup ItemsOfUsers(U)
        C == C0 \cup CategoriesOfItems(I)
        O == O0 \cup OptionItemsOfCategories(C)
        keptRecords == DOMAIN records \ RecordsOf(U, I)
    IN  /\ users' = users \ U
        /\ items' = Drop(items, I)
        /\ contents' = Drop(contents, ContentsOfItems(I))
        /\ comments' = Drop(comments, CommentsOf(U, I))
        /\ option_categories' = Drop(option_categories, C)
        /\ option_items' = Drop(option_items, O)
        /\ records' = [r \in keptRecords |->
                          [records[r] EXCEPT !.options = OptionsWithout(@, O)]]
        /\ payments' = Drop(payments, PaymentsOf(U, I))
        /\ user_logs' = Drop(user_logs, UserLogsOfUsers(U))
        /\ last' = Step(op, id,
               {"item" : x \in I \ I0} \cup
               {"content" : x \in ContentsOfItems(I)} \cup
               {"comment" : x \in CommentsOf(U, I)} \cup
               {"category" : x \in C \ C0} \cup
               {"option" : x \in O \ O0} \cup
               {"record" : x \in RecordsOf(U, I)} \cup
               {"selection" : x \in {r \in keptRecords : records[r].options \cap O # {}}} \cup
               {"payment" : x \in PaymentsOf(U, I)} \cup
               {"log" : x \in UserLogsOfUsers(U)})
        /\ UNCHANGED <<nextId, now, tz>>

\* user.delete()
DeleteUser(u) == u \in users /\ Delete("DeleteUser", u, {u}, {}, {}, {})
\* item.delete()
DeleteItem(i) == i \in DOMAIN items /\ Delete("DeleteItem", i, {}, {i}, {}, {})
\* category.delete()
DeleteOptionCategory(c) ==
    c \in DOMAIN option_categories /\ Delete("DeleteOptionCategory", c, {}, {}, {c}, {})
\* option.delete()
DeleteOptionItem(o) ==
    o \in DOMAIN option_items /\ Delete("DeleteOptionItem", o, {}, {}, {}, {o})
(***************************************************************************)
(* UserLog.pretty and UserLog.__str__                                      *)
(***************************************************************************)
Pad2(n) == IF n < 10 THEN "0" \o ToString(n) ELSE ToString(n)

\* User.username, and str(user), which is the username
UserName(u) == "user" \o ToString(u)
\* str() of the user field in an f-string: the user, or None
PyStr(u) == IF u = NoUser THEN "None" ELSE UserName(u)

\* localtime(value): the instant in the current time zone
localtime(t) ==
    [day |-> 1 + (t + tz) \div 24, hour |-> (t + tz) % 24, utcoffset |-> tz]
\* datetime.isoformat() of an aware datetime
isoformat(d) ==
    "2017-10-" \o Pad2(d.day) \o "T" \o Pad2(d.hour) \o ":00:00+"
    \o Pad2(d.utcoffset) \o ":00"

\* the two string literals of pretty(): only the first is an f-string
prettyFormat(username, time_str, log) ==
    username \o "/" \o time_str \o " (" \o ToString(log.level) \o ", " \o log.ip
    \o ") " \o "{self.group}.{self.text}"

pretty(l) ==
    LET self == user_logs[l]
        username == IF self.user # NoUser THEN UserName(self.user) ELSE "undefined"
        time_str == isoformat(localtime(self.time))
    IN  prettyFormat(username, time_str, self)

\* the two string literals of __str__(): only the first is an f-string
strFormat(user, time_str, log) ==
    time_str \o "/" \o ToString(log.level) \o " (" \o user \o ") "
    \o "{self.group}.{self.text}"

__str__(l) ==
    LET self == user_logs[l]
        time_str == isoformat(localtime(self.time))
    IN  strFormat(PyStr(self.user), time_str, self)

(***************************************************************************)
(* The values the operations are called with                               *)
(***************************************************************************)
Prices == {1000, 1500}
Deltas == {0, 200, -300}
Quantities == {0, 2, 3}
Totals == {0, 2400}
\* a payload column is NULL or holds a value
Payloads == {Null, "x"}

(***************************************************************************)
(* Spec: rows of every table are created and physically deleted            *)
(***************************************************************************)
Next ==
    \/ Rows < MaxRows /\ CreateUser
    \/ \E u \in users : DeleteUser(u)
    \/ Rows < MaxRows /\ \E h \in users : CreateItem(h, 1000)
    \/ \E i \in DOMAIN items : SoftDeleteItem(i)
    \/ \E i \in DOMAIN items : DeleteItem(i)
    \/ Rows < MaxRows
         /\ \E i \in DOMAIN items :
                CreateContent(i, CONTENT_TYPE_TEXT, "x", Null, Null)
    \/ Rows < MaxRows /\ \E i \in DOMAIN items, w \in users : CreateComment(i, w)
    \/ \E c \in DOMAIN comments : SoftDeleteComment(c)
    \/ Rows < MaxRows /\ \E i \in DOMAIN items : CreateOptionCategory(i)
    \/ \E c \in DOMAIN option_categories : DeleteOptionCategory(c)
    \/ Rows < MaxRows
         /\ \E c \in DOMAIN option_categories, d \in {0, 200} : CreateOptionItem(c, d)
    \/ \E o \in DOMAIN option_items : DeleteOptionItem(o)
    \/ Rows < MaxRows
         /\ \E u \in users, i \in DOMAIN items, q \in {0, 2} : CreateRecord(u, i, q)
    \/ \E r \in DOMAIN records, S \in SUBSET DOMAIN option_items :
           SetRecordOptions(r, S)
    \/ Rows < MaxRows
         /\ \E u \in users, i \in DOMAIN items : CreatePayment(i, u, 0, STATUS_PENDING)
    \/ Rows < MaxRows
         /\ \E u \in users \cup {NoUser} :
                CreateUserLog(u, 20, "0.0.0.0", GROUP_ACCOUNT, "login")

Spec == Init /\ [][Next]_vars

(***************************************************************************)
(* SpecItem: Items and the rows they own, created and physically deleted    *)
(***************************************************************************)
NextItem ==
    \/ Rows < MaxItemRows /\ nextId.user = 1 /\ CreateUser
    \/ Rows < MaxItemRows /\ \E h \in users : CreateItem(h, 1000)
    \/ \E i \in DOMAIN items : DeleteItem(i)
    \/ Rows < MaxItemRows
         /\ \E i \in DOMAIN items :
                CreateContent(i, CONTENT_TYPE_TEXT, "x", Null, Null)
    \/ Rows < MaxItemRows /\ \E i \in DOMAIN items, w \in users : CreateComment(i, w)
    \/ Rows < MaxItemRows /\ \E i \in DOMAIN items : CreateOptionCategory(i)
    \/ Rows < MaxItemRows
         /\ \E c \in DOMAIN option_categories : CreateOptionItem(c, 200)

SpecItem == Init /\ [][NextItem]_vars

(***************************************************************************)
(* SpecCost: Records, their options and the prices cost() reads            *)
(***************************************************************************)
NextCost ==
    \/ Rows < MaxCostRows /\ nextId.user = 1 /\ CreateUser
    \/ Rows < MaxCostRows /\ \E h \in users, p \in Prices : CreateItem(h, p)
    \/ \E i \in DOMAIN items, p \in Prices : UpdateItemPrice(i, p)
    \/ Rows < MaxCostRows /\ \E i \in DOMAIN items : CreateOptionCategory(i)
    \/ Rows < MaxCostRows
         /\ \E c \in DOMAIN option_categories, d \in Deltas : CreateOptionItem(c, d)
    \/ \E o \in DOMAIN option_items, d \in Deltas : UpdateOptionItem(o, d)
    \/ Rows < MaxCostRows
         /\ \E u \in users, i \in DOMAIN items, q \in Quantities : CreateRecord(u, i, q)
    \/ \E r \in DOMAIN records, S \in SUBSET DOMAIN option_items :
           SetRecordOptions(r, S)
    \/ \E r \in DOMAIN records, q \in Quantities : UpdateRecordQuantity(r, q)

SpecCost == Init /\ [][NextCost]_vars

(***************************************************************************)
(* SpecPayment: Payments beside the Records they are meant to total        *)
(***************************************************************************)
NextPayment ==
    \/ Rows < MaxPaymentRows /\ nextId.user = 1 /\ CreateUser
    \/ Rows < MaxPaymentRows /\ nextId.item = 1 /\ \E h \in users : CreateItem(h, 1000)
    \/ \E i \in DOMAIN items, p \in Prices : UpdateItemPrice(i, p)
    \/ Rows < MaxPaymentRows
         /\ \E u \in users, i \in DOMAIN items, q \in {1, 2} : CreateRecord(u, i, q)
    \/ \E r \in DOMAIN records : DeleteRecord(r)
    \/ Rows < MaxPaymentRows
         /\ \E u \in users, i \in DOMAIN items, t \in Totals, st \in {"0", "1", "2", "3"} :
                CreatePayment(i, u, t, st)
    \/ \E p \in DOMAIN payments, t \in Totals : UpdatePaymentTotal(p, t)
    \/ \E p \in DOMAIN payments, st \in {"0", "1", "2", "3"} : UpdatePaymentStatus(p, st)

SpecPayment == Init /\ [][NextPayment]_vars

(***************************************************************************)
(* SpecContent: the Content rows of an Item                                *)
(***************************************************************************)
NextContent ==
    \/ Rows < MaxContentRows /\ nextId.user = 1 /\ CreateUser
    \/ Rows < MaxContentRows /\ nextId.item = 1 /\ \E h \in users : CreateItem(h, 1000)
    \/ Rows < MaxContentRows
         /\ \E i \in DOMAIN items, t \in CONTENT_TYPE_CHOICES \cup {"3"},
               c \in Payloads, im \in Payloads, l \in Payloads :
                CreateContent(i, t, c, im, l)
    \/ \E k \in DOMAIN contents, t \in CONTENT_TYPE_CHOICES \cup {"3"},
          c \in Payloads, im \in Payloads, l \in Payloads :
           UpdateContent(k, t, c, im, l)

SpecContent == Init /\ [][NextContent]_vars

(***************************************************************************)
(* SpecLog: the audit log                                                  *)
(***************************************************************************)
InitLog == Blank /\ tz \in TimeZones

NextLog ==
    \/ Rows < MaxLogRows /\ nextId.user = 1 /\ CreateUser
    \/ Rows < MaxLogRows
         /\ \E u \in users \cup {NoUser}, lv \in {20, 40}, ip \in {"0.0.0.0"},
               tx \in {"login", "logout"} :
                CreateUserLog(u, lv, ip, GROUP_ACCOUNT, tx)
    \/ now < MaxNow /\ Tick

SpecLog == InitLog /\ [][NextLog]_vars

(***************************************************************************)
(* Properties                                                              *)
(***************************************************************************)
\* the price_delta of the selected options, added up
SumDeltas(opts) ==
    SumOver(opts, [o \in DOMAIN option_items |-> option_items[o].price_delta])

\* C1: for every Record, whatever OptionItems it selects and whatever its
\* quantity, cost() is (item.price + the sum of the selected price_delta) *
\* quantity; price 1000 with one option of delta 200 and quantity 2 costs 2400.
C1_CostIsPricePlusDeltasTimesQuantity ==
    \A r \in DOMAIN records :
        /\ cost(r) = (items[records[r].item].price + SumDeltas(records[r].options))
                       * records[r].quantity
        /\ (/\ items[records[r].item].price = 1000
            /\ records[r].quantity = 2
            /\ \E o \in DOMAIN option_items :
                   records[r].options = {o} /\ option_items[o].price_delta = 200)
               => cost(r) = 2400

\* a Record that selects two options of one category, with a quantity and
\* deltas that show in cost()
C1_Witness ==
    \E r \in DOMAIN records : \E o1, o2 \in records[r].options :
        /\ o1 # o2
        /\ option_items[o1].category = option_items[o2].category
        /\ option_items[o1].price_delta = 200
        /\ option_items[o2].price_delta = -300
        /\ records[r].quantity = 3
        /\ cost(r) = (items[records[r].item].price - 100) * 3

\* a Record that selects an option of an item other than its own
C1_OtherItem ==
    \E r \in DOMAIN records : \E o \in records[r].options :
        /\ option_categories[option_items[o].category].item # records[r].item
        /\ option_items[o].price_delta = 200
        /\ items[records[r].item].price = 1500
        /\ records[r].quantity = 2
        /\ cost(r) = 3400

\* the example of C1 as a state
C1_Example ==
    \E r \in DOMAIN records : \E o \in DOMAIN option_items :
        /\ items[records[r].item].price = 1000
        /\ records[r].options = {o}
        /\ option_items[o].price_delta = 200
        /\ records[r].quantity = 2
        /\ cost(r) = 2400

\* the option items of the categories of item i
OptionItemsOfItem(i) ==
    {o \in DOMAIN option_items : option_categories[option_items[o].category].item = i}

\* C2: a physical delete of an Item removes, in the same step, the Item, its
\* Contents, Comments and OptionCategories and the OptionItems of those
\* categories, and leaves the rows of the other Items as they were.
C2_DeleteItemCascades ==
    [][\A i \in DOMAIN items :
          (last'.op = "DeleteItem" /\ last'.id = i) =>
              /\ i \notin DOMAIN items'
              /\ \A c \in DOMAIN contents' : contents'[c].item # i
              /\ \A c \in DOMAIN comments' : comments'[c].item # i
              /\ \A c \in DOMAIN option_categories' : option_categories'[c].item # i
              /\ \A o \in DOMAIN option_items' :
                     /\ option_items'[o].category \in DOMAIN option_categories'
                     /\ o \notin OptionItemsOfItem(i)
              /\ \A j \in DOMAIN items \ {i} :
                     j \in DOMAIN items' /\ items'[j] = items[j]
              /\ \A c \in DOMAIN contents : contents[c].item # i =>
                     c \in DOMAIN contents' /\ contents'[c] = contents[c]
              /\ \A c \in DOMAIN comments : comments[c].item # i =>
                     c \in DOMAIN comments' /\ comments'[c] = comments[c]
              /\ \A c \in DOMAIN option_categories : option_categories[c].item # i =>
                     /\ c \in DOMAIN option_categories'
                     /\ option_categories'[c] = option_categories[c]
              /\ \A o \in DOMAIN option_items \ OptionItemsOfItem(i) :
                     o \in DOMAIN option_items' /\ option_items'[o] = option_items[o]
      ]_vars

\* an Item with a Content, a Comment, an OptionCategory and an OptionItem has
\* just been deleted while another Item keeps its Content
C2_Witness ==
    /\ last.op = "DeleteItem"
    /\ {"content", "comment", "category", "option"} \subseteq last.info
    /\ \E j \in DOMAIN items : \E c \in DOMAIN contents : contents[c].item = j

\* C3: a soft delete of an Item sets its is_deleted and nothing else: the row
\* stays, and every Content and Comment row (and every other row) is unchanged.
C3_SoftDeleteItemChangesOnlyTheFlag ==
    [][\A i \in DOMAIN items :
          (last'.op = "SoftDeleteItem" /\ last'.id = i) =>
              /\ DOMAIN items' = DOMAIN items
              /\ items'[i] = [items[i] EXCEPT !.is_deleted = TRUE]
              /\ \A j \in DOMAIN items \ {i} : items'[j] = items[j]
              /\ contents' = contents
              /\ comments' = comments
              /\ UNCHANGED <<users, option_categories, option_items, records,
                             payments, user_logs>>
      ]_vars

\* an Item that has a Content and a Comment has just been soft-deleted
C3_Witness ==
    /\ last.op = "SoftDeleteItem"
    /\ last.id \in DOMAIN items
    /\ items[last.id].is_deleted
    /\ \E c \in DOMAIN contents : contents[c].item = last.id
    /\ \E c \in DOMAIN comments : comments[c].item = last.id /\ ~comments[c].is_deleted

\* C4: at most one Payment row for each (item, participant) pair.
C4_OnePaymentPerItemAndParticipant ==
    \A p, q \in DOMAIN payments :
        (payments[p].item = payments[q].item
         /\ payments[p].participant = payments[q].participant) => p = q

\* the cost() of the Records of an item and a participant, added up
RecordsTotal(i, u) ==
    SumOver({r \in DOMAIN records : records[r].item = i /\ records[r].participant = u},
            [r \in DOMAIN records |-> cost(r)])

\* C5: the total of every Payment is the sum of cost() over the Records of
\* its item and participant, after any sequence of operations.
C5_TotalIsSumOfRecordCosts ==
    \A p \in DOMAIN payments :
        payments[p].total = RecordsTotal(payments[p].item, payments[p].participant)

\* the place of a status in the lifecycle PENDING, JOINED, PAID
Stage(status) ==
    IF status = STATUS_PENDING THEN 0 ELSE IF status = STATUS_JOINED THEN 1 ELSE 2

DisplayName(l) ==
    IF user_logs[l].user = NoUser THEN "undefined" ELSE UserName(user_logs[l].user)

\* C7: pretty() and __str__() of a UserLog show "undefined" as the name when
\* its user is None, and the username of its user otherwise.
C7_NoUserRendersUndefined ==
    \A l \in DOMAIN user_logs :
        LET time_str == isoformat(localtime(user_logs[l].time))
        IN  /\ pretty(l) = prettyFormat(DisplayName(l), time_str, user_logs[l])
            /\ __str__(l) = strFormat(DisplayName(l), time_str, user_logs[l])

\* C8: pretty() and __str__() of a UserLog contain its text, so two logs
\* that differ only in text render to different strings.
C8_RenderingShowsTheText ==
    \A l1, l2 \in DOMAIN user_logs :
        (/\ user_logs[l1].text # user_logs[l2].text
         /\ [user_logs[l1] EXCEPT !.text = ""] = [user_logs[l2] EXCEPT !.text = ""])
        => (pretty(l1) # pretty(l2) /\ __str__(l1) # __str__(l2))

\* the payload columns of a Content that hold a value
Populated(c) ==
    {f \in {"content", "image", "link"} : contents[c][f] # Null}

\* the payload column that goes with a type
PayloadOf(type) ==
    IF type = CONTENT_TYPE_TEXT THEN "content"
    ELSE IF type = CONTENT_TYPE_IMAGE THEN "image" ELSE "link"

\* C9: every Content row has exactly one of content, image and link
\* populated, the one that matches its type.
C9_ExactlyThePayloadOfTheType ==
    \A c \in DOMAIN contents : Populated(c) = {PayloadOf(contents[c].type)}

\* every reference of every row names a row that exists
ReferentialIntegrity ==
    /\ \A i \in DOMAIN items : items[i].host \in users
    /\ \A c \in DOMAIN contents : contents[c].item \in DOMAIN items
    /\ \A c \in DOMAIN comments :
           comments[c].item \in DOMAIN items /\ comments[c].writer \in users
    /\ \A c \in DOMAIN option_categories : option_categories[c].item \in DOMAIN items
    /\ \A o \in DOMAIN option_items :
           option_items[o].category \in DOMAIN option_categories
    /\ \A r \in DOMAIN records :
           /\ records[r].item \in DOMAIN items
           /\ records[r].participant \in users
           /\ records[r].options \subseteq DOMAIN option_items
    /\ \A p \in DOMAIN payments :
           payments[p].item \in DOMAIN items /\ payments[p].participant \in users
    /\ \A l \in DOMAIN user_logs :
           user_logs[l].user = NoUser \/ user_logs[l].user \in users

\* a delete of an Item takes the Records and Payments of the Item with it
DeleteItemTakesRecordsAndPayments ==
    \A i \in DOMAIN items :
        (last'.op = "DeleteItem" /\ last'.id = i) =>
            /\ DOMAIN records' = {r \in DOMAIN records : records[r].item # i}
            /\ DOMAIN payments' = {p \in DOMAIN payments : payments[p].item # i}

\* a delete of an OptionItem keeps every Record and takes the OptionItem out
\* of every selection
DeleteOptionItemKeepsRecords ==
    \A o \in DOMAIN option_items :
        (last'.op = "DeleteOptionItem" /\ last'.id = o) =>
            /\ DOMAIN records' = DOMAIN records
            /\ \A r \in DOMAIN records :
                   records'[r] = [records[r] EXCEPT !.options = @ \ {o}]

\* C10 (amended): every physical delete preserves referential integrity; a
\* delete of an Item deletes its Records and Payments; a delete of an
\* OptionItem keeps every Record, takes the OptionItem out of every selection
\* and lowers the cost() of a Record that selected it by price_delta * quantity.
C10_DeletesPreserveIntegrity ==
    /\ []ReferentialIntegrity
    /\ [][/\ DeleteItemTakesRecordsAndPayments
          /\ DeleteOptionItemKeepsRecords
          /\ \A o \in DOMAIN option_items :
                 (last'.op = "DeleteOptionItem" /\ last'.id = o) =>
                     \A r \in DOMAIN records :
                         cost(r)' = IF o \in records[r].options
                                    THEN cost(r) - option_items[o].price_delta
                                                   * records[r].quantity
                                    ELSE cost(r)
      ]_vars

\* an OptionItem that a Record selected has just been deleted; the Record is
\* still there, selects nothing and costs price * quantity
C10_Witness ==
    /\ last.op = "DeleteOptionItem"
    /\ "selection" \in last.info
    /\ \E r \in DOMAIN records :
           records[r].options = {} /\ records[r].quantity = 2 /\ cost(r) = 2000

\* C10 as claimed: as above, but the delete of an OptionItem changes the
\* cost() of every Record that selected it.
C10_DeleteOptionItemChangesCost ==
    /\ []ReferentialIntegrity
    /\ [][/\ DeleteItemTakesRecordsAndPayments
          /\ DeleteOptionItemKeepsRecords
          /\ \A o \in DOMAIN option_items :
                 (last'.op = "DeleteOptionItem" /\ last'.id = o) =>
                     \A r \in DOMAIN records :
                         o \in records[r].options => cost(r)' # cost(r)
      ]_vars

====
